---------------------------- MODULE Spec2Model ----------------------------
(***************************************************************************)
(* A model of sf::IndexBuffer (src/src/SFML/Graphics/IndexBuffer.cpp) and  *)
(* of the part of the OpenGL buffer-object machine its calls act on.       *)
(*                                                                         *)
(* Every member function is an operator over a "world" record w (the       *)
(* instances' fields plus the device state), written statement by          *)
(* statement after the C++ body, so that a function calling another one    *)
(* (the copy constructor, operator=) is the composition of the operators.  *)
(* An action of the specification applies one whole member function.       *)
(***************************************************************************)
EXTENDS Integers, Sequences, FiniteSets, TLC

(***************************************************************************)
(* Bounds and program constants                                            *)
(***************************************************************************)
\* largest ordinary index count / offset a caller passes
MaxCount == 2

\* number of member-function calls the program makes after constructing its objects
MaxCalls == 3

\* width of std::size_t (and of GLsizeiptr / GLintptr), scaled down from 64
SizeBits == 6

SizeMod == 2 ^ SizeBits

\* sizeof(GLuint)
SizeofGLuint == 4

\* The IndexBuffer objects of the program; Temp is the local `temp` of operator=
Inst == {1, 2}

Temp == 0

Slots == Inst \cup {Temp}

\* Buffer object names the device can hand out; 0 is "no buffer"
Names == {1, 2, 3}

\* A caller's index arrays: NULL or the array number 1, holding Elem(1, k) at k.
\* No call of the model reads past ArrayLen: a count above it is SizeMod - 1,
\* whose byte size the device rejects before it reads anything.
NULL == 0

DataPtrs == {NULL, 1}

\* the number of indices the caller's array holds
ArrayLen == MaxCount

Elem(d, k) == 10 * d + k

\* index counts a caller passes: ordinary ones and the largest size_t
Counts == (0 .. MaxCount) \cup {SizeMod - 1}

Offsets == 0 .. MaxCount

Usage == {"Stream", "Dynamic", "Static"}

\* contents of a data store allocated with a null pointer are unspecified;
\* Undef(h) stands for the unspecified values store h was allocated with
Undef(h) == 0 - h

\* a value read from outside a mapping, or left by a failed unmap
Garbage == 0

\* Threads that update one buffer at the same time; each has its own array
Threads == {1, 2}

\* a thread that is not inside update(indices, indexCount, offset)
NoWriter == [pc |-> "idle", indices |-> NULL, indexCount |-> 0, offset |-> 0, ret |-> FALSE]

VARIABLES calls, alive, m_buffer, m_size, m_usage, store, bound, copy_buffer,
          openglES, ctxHeld, crashed, last, writer, ctxOwner

vars == <<calls, alive, m_buffer, m_size, m_usage, store, bound, copy_buffer,
          openglES, ctxHeld, crashed, last, writer, ctxOwner>>

(***************************************************************************)
(* Fixed-width arithmetic                                                  *)
(***************************************************************************)
\* sizeof(GLuint) * n in std::size_t
Bytes(n) == (SizeofGLuint * n) % SizeMod

\* static_cast<GLsizeiptrARB>(x) / static_cast<GLintptrARB>(x)
ToSigned(x) == IF x >= SizeMod \div 2 THEN x - SizeMod ELSE x

\* offset + indexCount in std::size_t
AddSize(a, b) == (a + b) % SizeMod

(***************************************************************************)
(* The device: buffer objects                                              *)
(***************************************************************************)
NoObject == [state |-> "unused", size |-> 0, usage |-> "none", data |-> <<>>]

NamedOnly == [state |-> "named", size |-> 0, usage |-> "none", data |-> <<>>]

EmptyObject == [state |-> "object", size |-> 0, usage |-> "GL_STATIC_DRAW", data |-> <<>>]

UnusedNames(st) == {h \in Names : st[h].state = "unused"}

\* number of indices a data store holds
StoreCount(s) == s.size \div SizeofGLuint

Binding(w, target) ==
    CASE target = "GL_ELEMENT_ARRAY_BUFFER" -> w.bound
      [] target = "GL_COPY_READ_BUFFER" -> w.copyRead
      [] target = "GL_COPY_WRITE_BUFFER" -> w.copyWrite

\* a device call; unscoped counts the calls made with no context scope held
GlCall(w) ==
    [w EXCEPT !.glCalls = @ + 1,
              !.unscoped = IF w.ctxHeld = 0 THEN @ + 1 ELSE @]

\* glGenBuffers(1, &m_buffer): name is an unused name, or 0 when generation fails
glGenBuffers(w, self, name) ==
    LET w1 == GlCall(w)
    IN IF name = 0 THEN w1
       ELSE [w1 EXCEPT !.m_buffer[self] = name, !.store[name] = NamedOnly]

\* glBindBuffer(target, name): the first bind of a name creates the object
glBindBuffer(w, target, name) ==
    LET w1 == GlCall(w)
        w2 == IF name # 0 /\ w1.store[name].state # "object"
              THEN [w1 EXCEPT !.store[name] = EmptyObject] ELSE w1
    IN CASE target = "GL_ELEMENT_ARRAY_BUFFER" -> [w2 EXCEPT !.bound = name]
         [] target = "GL_COPY_READ_BUFFER" -> [w2 EXCEPT !.copyRead = name]
         [] target = "GL_COPY_WRITE_BUFFER" -> [w2 EXCEPT !.copyWrite = name]

\* glBufferData(target, size, nullptr, usage): GL_INVALID_VALUE for size < 0,
\* GL_INVALID_OPERATION with no buffer bound; otherwise a new data store
glBufferData(w, target, size, usage) ==
    LET w1 == GlCall(w)
        b == Binding(w1, target)
    IN IF b = 0 \/ size < 0 THEN w1
       ELSE [w1 EXCEPT !.store[b] =
                [state |-> "object", size |-> size, usage |-> usage,
                 data |-> [k \in 1 .. (size \div SizeofGLuint) |-> Undef(b)]]]

\* glBufferSubData(target, offset, size, data): GL_INVALID_VALUE when offset
\* or size is negative or the range leaves the data store
glBufferSubData(w, target, offset, size, data) ==
    LET w1 == GlCall(w)
        b == Binding(w1, target)
    IN IF b = 0 \/ offset < 0 \/ size < 0 THEN w1
       ELSE IF offset + size > w1.store[b].size THEN w1
       ELSE LET first == offset \div SizeofGLuint
                n == size \div SizeofGLuint
            IN [w1 EXCEPT !.store[b].data =
                   [k \in DOMAIN @ |->
                       IF k > first /\ k <= first + n
                       THEN Elem(data, k - first) ELSE @[k]]]

\* glCopyBufferSubData(READ, WRITE, 0, 0, size): GL_INVALID_VALUE when size is
\* negative, leaves either data store, or the two ranges overlap in one buffer
glCopyBufferSubData(w, size) ==
    LET w1 == GlCall(w)
        r == w1.copyRead
        wr == w1.copyWrite
    IN IF r = 0 \/ wr = 0 \/ size < 0 THEN w1
       ELSE IF size > w1.store[r].size \/ size > w1.store[wr].size THEN w1
       ELSE IF r = wr /\ size > 0 THEN w1
       ELSE LET n == size \div SizeofGLuint
            IN [w1 EXCEPT !.store[wr].data =
                   [k \in DOMAIN @ |-> IF k <= n THEN w1.store[r].data[k] ELSE @[k]]]

\* glDeleteBuffers(1, &name): the name becomes unused, bindings to it are reset
glDeleteBuffers(w, name) ==
    LET w1 == GlCall(w)
    IN IF name = 0 THEN w1
       ELSE [w1 EXCEPT !.store[name] = NoObject,
                       !.bound = IF @ = name THEN 0 ELSE @]

(***************************************************************************)
(* TransientContextLock                                                    *)
(***************************************************************************)
Lock(w) == [w EXCEPT !.ctxHeld = @ + 1, !.acquired = @ + 1]

Unlock(w) == [w EXCEPT !.ctxHeld = @ - 1]

Return(w, value) == [w EXCEPT !.ret = value]

\* VertexBufferImpl::usageToGlEnum
usageToGlEnum(usage) ==
    CASE usage = "Static" -> "GL_STATIC_DRAW"
      [] usage = "Dynamic" -> "GL_DYNAMIC_DRAW"
      [] OTHER -> "GL_STREAM_DRAW"

\* IndexBuffer::isAvailable
isAvailable == TRUE


(***************************************************************************)
(* sf::IndexBuffer member functions                                        *)
(***************************************************************************)
\* IndexBuffer::IndexBuffer() and IndexBuffer::IndexBuffer(Usage)
construct(w, self, usage) ==
    [w EXCEPT !.alive[self] = TRUE, !.m_buffer[self] = 0,
              !.m_size[self] = 0, !.m_usage[self] = usage]

\* create that keeps the context scope when generation fails
create_KeepsScopeOnFailure(w, self, indexCount, name) ==
    LET w1 == Lock(w)
        w2 == IF w1.m_buffer[self] = 0 THEN glGenBuffers(w1, self, name) ELSE w1
    IN IF w2.m_buffer[self] = 0 THEN Return(w2, FALSE)
       ELSE LET w3 == glBindBuffer(w2, "GL_ELEMENT_ARRAY_BUFFER", w2.m_buffer[self])
                w4 == glBufferData(w3, "GL_ELEMENT_ARRAY_BUFFER",
                                   ToSigned(Bytes(indexCount)),
                                   usageToGlEnum(w3.m_usage[self]))
                w5 == glBindBuffer(w4, "GL_ELEMENT_ARRAY_BUFFER", 0)
                w6 == [w5 EXCEPT !.m_size[self] = indexCount]
            IN Return(Unlock(w6), TRUE)

\* IndexBuffer::create
create(w, self, indexCount, name) ==
    IF ~isAvailable THEN Return(w, FALSE)
    ELSE LET w1 == Lock(w)
             w2 == IF w1.m_buffer[self] = 0 THEN glGenBuffers(w1, self, name) ELSE w1
         IN IF w2.m_buffer[self] = 0 THEN Return(Unlock(w2), FALSE)
            ELSE LET w3 == glBindBuffer(w2, "GL_ELEMENT_ARRAY_BUFFER", w2.m_buffer[self])
                     w4 == glBufferData(w3, "GL_ELEMENT_ARRAY_BUFFER",
                                        ToSigned(Bytes(indexCount)),
                                        usageToGlEnum(w3.m_usage[self]))
                     w5 == glBindBuffer(w4, "GL_ELEMENT_ARRAY_BUFFER", 0)
                     w6 == [w5 EXCEPT !.m_size[self] = indexCount]
                 IN Return(Unlock(w6), TRUE)

\* IndexBuffer::getIndexCount
getIndexCount(w, self) == w.m_size[self]

\* IndexBuffer::getNativeHandle
getNativeHandle(w, self) == w.m_buffer[self]

\* IndexBuffer::getUsage
getUsage(w, self) == w.m_usage[self]

\* updateRange with the assignment of line 171 left out
updateRange_KeepsSize(w, self, indices, indexCount, offset) ==
    IF w.m_buffer[self] = 0 THEN Return(w, FALSE)
    ELSE IF indices = NULL THEN Return(w, FALSE)
    ELSE IF offset # 0 /\ AddSize(offset, indexCount) > w.m_size[self] THEN Return(w, FALSE)
    ELSE LET w1 == Lock(w)
             w2 == glBindBuffer(w1, "GL_ELEMENT_ARRAY_BUFFER", w1.m_buffer[self])
             w3 == IF indexCount >= w2.m_size[self]
                   THEN glBufferData(w2, "GL_ELEMENT_ARRAY_BUFFER",
                                     ToSigned(Bytes(indexCount)),
                                     usageToGlEnum(w2.m_usage[self]))
                   ELSE w2
             w4 == glBufferSubData(w3, "GL_ELEMENT_ARRAY_BUFFER", ToSigned(Bytes(offset)),
                                   ToSigned(Bytes(indexCount)), indices)
             w5 == glBindBuffer(w4, "GL_ELEMENT_ARRAY_BUFFER", 0)
         IN Return(Unlock(w5), TRUE)

\* updateRange taking the context scope before its sanity checks
updateRange_LocksFirst(w, self, indices, indexCount, offset) ==
    LET w1 == Lock(w)
    IN IF w1.m_buffer[self] = 0 THEN Return(Unlock(w1), FALSE)
       ELSE IF indices = NULL THEN Return(Unlock(w1), FALSE)
       ELSE IF offset # 0 /\ AddSize(offset, indexCount) > w1.m_size[self]
            THEN Return(Unlock(w1), FALSE)
       ELSE LET w2 == glBindBuffer(w1, "GL_ELEMENT_ARRAY_BUFFER", w1.m_buffer[self])
                w3 == IF indexCount >= w2.m_size[self]
                      THEN [glBufferData(w2, "GL_ELEMENT_ARRAY_BUFFER",
                                         ToSigned(Bytes(indexCount)),
                                         usageToGlEnum(w2.m_usage[self]))
                            EXCEPT !.m_size[self] = indexCount]
                      ELSE w2
                w4 == glBufferSubData(w3, "GL_ELEMENT_ARRAY_BUFFER", ToSigned(Bytes(offset)),
                                      ToSigned(Bytes(indexCount)), indices)
                w5 == glBindBuffer(w4, "GL_ELEMENT_ARRAY_BUFFER", 0)
            IN Return(Unlock(w5), TRUE)

\* updateRange with the range check of line 159 left out
updateRange_NoRangeCheck(w, self, indices, indexCount, offset) ==
    IF w.m_buffer[self] = 0 THEN Return(w, FALSE)
    ELSE IF indices = NULL THEN Return(w, FALSE)
    ELSE LET w1 == Lock(w)
             w2 == glBindBuffer(w1, "GL_ELEMENT_ARRAY_BUFFER", w1.m_buffer[self])
             w3 == IF indexCount >= w2.m_size[self]
                   THEN [glBufferData(w2, "GL_ELEMENT_ARRAY_BUFFER",
                                      ToSigned(Bytes(indexCount)),
                                      usageToGlEnum(w2.m_usage[self]))
                         EXCEPT !.m_size[self] = indexCount]
                   ELSE w2
             w4 == glBufferSubData(w3, "GL_ELEMENT_ARRAY_BUFFER", ToSigned(Bytes(offset)),
                                   ToSigned(Bytes(indexCount)), indices)
             w5 == glBindBuffer(w4, "GL_ELEMENT_ARRAY_BUFFER", 0)
         IN Return(Unlock(w5), TRUE)

\* IndexBuffer::update(const GLuint*, std::size_t, unsigned int)
updateRange(w, self, indices, indexCount, offset) ==
    IF w.m_buffer[self] = 0 THEN Return(w, FALSE)
    ELSE IF indices = NULL THEN Return(w, FALSE)
    ELSE IF offset # 0 /\ AddSize(offset, indexCount) > w.m_size[self] THEN Return(w, FALSE)
    ELSE LET w1 == Lock(w)
             w2 == glBindBuffer(w1, "GL_ELEMENT_ARRAY_BUFFER", w1.m_buffer[self])
             w3 == IF indexCount >= w2.m_size[self]
                   THEN [glBufferData(w2, "GL_ELEMENT_ARRAY_BUFFER",
                                      ToSigned(Bytes(indexCount)),
                                      usageToGlEnum(w2.m_usage[self]))
                         EXCEPT !.m_size[self] = indexCount]
                   ELSE w2
             w4 == glBufferSubData(w3, "GL_ELEMENT_ARRAY_BUFFER", ToSigned(Bytes(offset)),
                                   ToSigned(Bytes(indexCount)), indices)
             w5 == glBindBuffer(w4, "GL_ELEMENT_ARRAY_BUFFER", 0)
         IN Return(Unlock(w5), TRUE)

\* update(data) that passes one index less than the capacity
update_CountMinusOne(w, self, indices) ==
    updateRange(w, self, indices,
                IF w.m_size[self] > 0 THEN w.m_size[self] - 1 ELSE 0, 0)

\* IndexBuffer::update(const GLuint*)
update(w, self, indices) == updateRange(w, self, indices, w.m_size[self], 0)

\* glMapBuffer ... std::memcpy ... glUnmapBuffer of the fallback path, lines
\* 215-231.  src and dst are the two buffer names, n the byte count of the
\* memcpy (a size_t); srcOk and dstOk are what the two glUnmapBuffer calls
\* report; ub is what the build does when the memcpy leaves a mapping.
\*   - one buffer mapped twice: the second glMapBuffer fails and returns null,
\*     so the memcpy reads through a null pointer unless n = 0, and the second
\*     glUnmapBuffer finds nothing mapped and reports GL_FALSE;
\*   - a memcpy longer than a mapping is undefined: the process dies, or it
\*     goes on having read Garbage past the source and written what fits;
\*   - a data store whose unmap reports GL_FALSE has undefined contents.
mapCopyUnmap(w, dst, src, n, srcOk, dstOk, ub) ==
    LET cells == n \div SizeofGLuint
        dsz == w.store[dst].size
        ssz == w.store[src].size
        outside == (dst = src /\ n > 0) \/ n > dsz \/ n > ssz
        sOk == srcOk
        dOk == IF dst = src THEN FALSE ELSE dstOk
        source == w.store[src].data
        copied == [k \in DOMAIN w.store[dst].data |->
                     IF k > cells THEN w.store[dst].data[k]
                     ELSE IF dst # src /\ k <= Len(source) THEN source[k]
                     ELSE Garbage]
        w1 == [w EXCEPT !.store[dst].data = copied]
        w2 == IF sOk THEN w1
              ELSE [w1 EXCEPT !.store[src].data = [k \in DOMAIN @ |-> Garbage]]
        w3 == IF dOk THEN w2
              ELSE [w2 EXCEPT !.store[dst].data = [k \in DOMAIN @ |-> Garbage]]
        \* glMapBuffer x2, glUnmapBuffer x2, glBindBuffer x3
        w4 == [w3 EXCEPT !.glCalls = @ + 7, !.bound = 0,
                         !.unscoped = IF w.ctxHeld = 0 THEN @ + 7 ELSE @]
    IN IF (dst = src /\ n > 0) \/ (outside /\ ub = "crash")
       THEN [w EXCEPT !.crash = TRUE]
       ELSE Return(w4, sOk /\ dOk)

\* IndexBuffer::update(const IndexBuffer&)
updateBuffer(w, self, indexBuffer, srcOk, dstOk, ub) ==
    IF w.openglES THEN Return(w, FALSE)
    ELSE IF w.m_buffer[self] = 0 \/ w.m_buffer[indexBuffer] = 0 THEN Return(w, FALSE)
    ELSE LET w1 == Lock(w)
         IN IF w1.copy_buffer
            THEN LET w2 == glBindBuffer(w1, "GL_COPY_READ_BUFFER", w1.m_buffer[indexBuffer])
                     w3 == glBindBuffer(w2, "GL_COPY_WRITE_BUFFER", w2.m_buffer[self])
                     w4 == glCopyBufferSubData(w3, ToSigned(Bytes(w3.m_size[indexBuffer])))
                     w5 == glBindBuffer(w4, "GL_COPY_WRITE_BUFFER", 0)
                     w6 == glBindBuffer(w5, "GL_COPY_READ_BUFFER", 0)
                 IN Return(Unlock(w6), TRUE)
            ELSE LET w2 == glBindBuffer(w1, "GL_ELEMENT_ARRAY_BUFFER", w1.m_buffer[self])
                     w3 == glBufferData(w2, "GL_ELEMENT_ARRAY_BUFFER",
                                        ToSigned(Bytes(w2.m_size[indexBuffer])),
                                        usageToGlEnum(w2.m_usage[self]))
                     w4 == mapCopyUnmap(w3, w3.m_buffer[self], w3.m_buffer[indexBuffer],
                                        Bytes(w3.m_size[indexBuffer]), srcOk, dstOk, ub)
                 IN IF w4.crash THEN w4 ELSE Unlock(w4)

\* the destructor without its glDeleteBuffers
destroy_KeepsBuffer(w, self) ==
    [w EXCEPT !.alive[self] = FALSE, !.m_buffer[self] = 0,
              !.m_size[self] = 0, !.m_usage[self] = "Stream"]

\* IndexBuffer::~IndexBuffer
destroy(w, self) ==
    LET w1 == IF w.m_buffer[self] # 0
              THEN Unlock(glDeleteBuffers(Lock(w), w.m_buffer[self]))
              ELSE w
    IN [w1 EXCEPT !.alive[self] = FALSE, !.m_buffer[self] = 0,
                  !.m_size[self] = 0, !.m_usage[self] = "Stream"]

\* copyConstruct as a member-wise copy: the new instance takes the handle
copyConstruct_SharesHandle(w, self, copy, name, srcOk, dstOk, ub) ==
    [construct(w, self, w.m_usage[copy])
        EXCEPT !.m_buffer[self] = w.m_buffer[copy], !.m_size[self] = w.m_size[copy]]

\* IndexBuffer::IndexBuffer(const IndexBuffer&)
copyConstruct(w, self, copy, name, srcOk, dstOk, ub) ==
    LET w1 == construct(w, self, w.m_usage[copy])
    IN IF w1.m_buffer[copy] # 0 /\ w1.m_size[copy] # 0
       THEN LET w2 == create(w1, self, w1.m_size[copy], name)
            IN IF ~w2.ret THEN w2
               ELSE updateBuffer(w2, self, copy, srcOk, dstOk, ub)
       ELSE w1

\* swap that leaves the usage fields where they are
swap_KeepsUsage(w, self, right) ==
    [w EXCEPT !.m_size[self] = w.m_size[right], !.m_size[right] = w.m_size[self],
              !.m_buffer[self] = w.m_buffer[right], !.m_buffer[right] = w.m_buffer[self]]

\* IndexBuffer::swap
swap(w, self, right) ==
    [w EXCEPT !.m_size[self] = w.m_size[right], !.m_size[right] = w.m_size[self],
              !.m_buffer[self] = w.m_buffer[right], !.m_buffer[right] = w.m_buffer[self],
              !.m_usage[self] = w.m_usage[right], !.m_usage[right] = w.m_usage[self]]

\* IndexBuffer::operator=
assign(w, self, right, name, srcOk, dstOk, ub) ==
    LET w1 == copyConstruct(w, Temp, right, name, srcOk, dstOk, ub)
    IN IF w1.crash THEN w1
       ELSE destroy(swap(w1, self, Temp), Temp)

\* bind that makes no device call when given no buffer
bind_KeepsBindingOnNull(w, indexBuffer) ==
    IF indexBuffer = NULL THEN w
    ELSE Unlock(glBindBuffer(Lock(w), "GL_ELEMENT_ARRAY_BUFFER", w.m_buffer[indexBuffer]))

\* IndexBuffer::bind; indexBuffer is an instance, or NULL
bind(w, indexBuffer) ==
    IF ~isAvailable THEN w
    ELSE LET w1 == Lock(w)
             w2 == glBindBuffer(w1, "GL_ELEMENT_ARRAY_BUFFER",
                                IF indexBuffer # NULL THEN w1.m_buffer[indexBuffer] ELSE 0)
         IN Unlock(w2)

\* IndexBuffer::setUsage
setUsage(w, self, usage) == [w EXCEPT !.m_usage[self] = usage]


(***************************************************************************)
(* The program: calls made by a single thread, one member function each    *)
(***************************************************************************)
World ==
    [alive |-> alive, m_buffer |-> m_buffer, m_size |-> m_size, m_usage |-> m_usage,
     store |-> store, bound |-> bound, copyRead |-> 0, copyWrite |-> 0,
     copy_buffer |-> copy_buffer, openglES |-> openglES, ctxHeld |-> ctxHeld,
     acquired |-> 0, glCalls |-> 0, unscoped |-> 0, ret |-> FALSE, crash |-> FALSE]

\* the last member function called, on which objects and with which array (0
\* where it has no such parameter), and what its caller observed: the value returned, the number of context scopes
\* acquired, of device calls made, and of device calls made outside a scope
Call(op, self, other, indices) ==
    [op |-> op, self |-> self, other |-> other, indices |-> indices,
     ret |-> FALSE, acquired |-> 0, glCalls |-> 0, unscoped |-> 0]

NoInstance == [i \in Slots |-> 0]

\* the process state after the call `call` took world w to world r; a call
\* that died leaves no object and no context behind
Commit(r, call) ==
    /\ calls < MaxCalls
    /\ calls' = calls + 1
    /\ UNCHANGED <<copy_buffer, openglES, writer, ctxOwner>>
    /\ IF r.crash
       THEN /\ crashed' = TRUE
            /\ alive' = [i \in Slots |-> FALSE]
            /\ m_buffer' = NoInstance
            /\ m_size' = NoInstance
            /\ m_usage' = [i \in Slots |-> "Stream"]
            /\ store' = [h \in Names |-> NoObject]
            /\ bound' = 0
            /\ ctxHeld' = 0
            /\ last' = Call("crash", 0, 0, 0)
       ELSE /\ crashed' = FALSE
            /\ alive' = r.alive
            /\ m_buffer' = r.m_buffer
            /\ m_size' = r.m_size
            /\ m_usage' = r.m_usage
            /\ store' = r.store
            /\ bound' = r.bound
            /\ ctxHeld' = r.ctxHeld
            /\ last' = [call EXCEPT !.ret = r.ret, !.acquired = r.acquired,
                                    !.glCalls = r.glCalls, !.unscoped = r.unscoped]

Init ==
    /\ calls = 0
    /\ alive = [i \in Slots |-> i \in Inst]
    /\ m_buffer = NoInstance
    /\ m_size = NoInstance
    /\ m_usage = [i \in Slots |-> "Stream"]
    /\ store = [h \in Names |-> NoObject]
    /\ bound = 0
    /\ copy_buffer \in BOOLEAN
    /\ openglES \in BOOLEAN
    /\ openglES => ~copy_buffer
    /\ ctxHeld = 0
    /\ crashed = FALSE
    /\ last = Call("none", 0, 0, 0)
    /\ writer = [t \in Threads |-> NoWriter]
    /\ ctxOwner = 0

\* buffer names are opaque and the device is free in its choice among the
\* unused ones; every choice is the least one up to a renaming of the names
LeastUnused(st) ==
    IF UnusedNames(st) = {} THEN 0
    ELSE CHOOSE h \in UnusedNames(st) : \A g \in UnusedNames(st) : h <= g

GenNames == {LeastUnused(store), 0}

UbOutcomes == {"crash", "continue"}

Construct(self) ==
    /\ ~crashed /\ ~alive[self]
    /\ Commit(construct(World, self, "Stream"), Call("construct", self, 0, 0))

ConstructUsage(self, usage) ==
    /\ ~crashed /\ ~alive[self]
    /\ Commit(construct(World, self, usage), Call("constructUsage", self, 0, 0))

CopyConstruct(self, copy) ==
    /\ ~crashed /\ ~alive[self] /\ alive[copy]
    /\ \E name \in GenNames, srcOk \in BOOLEAN, dstOk \in BOOLEAN, ub \in UbOutcomes :
          Commit(copyConstruct(World, self, copy, name, srcOk, dstOk, ub),
                 Call("copyConstruct", self, copy, 0))

Destroy(self) ==
    /\ ~crashed /\ alive[self]
    /\ Commit(destroy(World, self), Call("destroy", self, 0, 0))

Create(self, indexCount) ==
    /\ ~crashed /\ alive[self]
    /\ \E name \in GenNames :
          Commit(create(World, self, indexCount, name),
                 Call("create", self, 0, 0))

Update(self, indices) ==
    /\ ~crashed /\ alive[self]
    /\ Commit(update(World, self, indices), Call("update", self, 0, indices))

UpdateRange(self, indices, indexCount, offset) ==
    /\ ~crashed /\ alive[self]
    /\ Commit(updateRange(World, self, indices, indexCount, offset),
              Call("updateRange", self, 0, indices))

UpdateBuffer(self, indexBuffer) ==
    /\ ~crashed /\ alive[self] /\ alive[indexBuffer]
    /\ \E srcOk \in BOOLEAN, dstOk \in BOOLEAN, ub \in UbOutcomes :
          Commit(updateBuffer(World, self, indexBuffer, srcOk, dstOk, ub),
                 Call("updateBuffer", self, indexBuffer, 0))

Assign(self, right) ==
    /\ ~crashed /\ alive[self] /\ alive[right]
    /\ \E name \in GenNames, srcOk \in BOOLEAN, dstOk \in BOOLEAN, ub \in UbOutcomes :
          Commit(assign(World, self, right, name, srcOk, dstOk, ub),
                 Call("assign", self, right, 0))

Swap(self, right) ==
    /\ ~crashed /\ alive[self] /\ alive[right]
    /\ Commit(swap(World, self, right), Call("swap", self, right, 0))

Bind(indexBuffer) ==
    /\ ~crashed /\ (indexBuffer # NULL => alive[indexBuffer])
    /\ Commit(bind(World, indexBuffer), Call("bind", 0, indexBuffer, 0))

SetUsage(self, usage) ==
    /\ ~crashed /\ alive[self]
    /\ Commit(setUsage(World, self, usage), Call("setUsage", self, 0, 0))

Next ==
    \/ \E self \in Inst : Construct(self)
    \/ \E self \in Inst, usage \in Usage : ConstructUsage(self, usage)
    \/ \E self \in Inst, copy \in Inst : CopyConstruct(self, copy)
    \/ \E self \in Inst : Destroy(self)
    \/ \E self \in Inst, indexCount \in Counts : Create(self, indexCount)
    \/ \E self \in Inst, indices \in DataPtrs : Update(self, indices)
    \/ \E self \in Inst, indices \in DataPtrs, indexCount \in Counts, offset \in Offsets :
          UpdateRange(self, indices, indexCount, offset)
    \/ \E self \in Inst, indexBuffer \in Inst : UpdateBuffer(self, indexBuffer)
    \/ \E self \in Inst, right \in Inst : Assign(self, right)
    \/ \E self \in Inst, right \in Inst : Swap(self, right)
    \/ \E indexBuffer \in Inst \cup {NULL} : Bind(indexBuffer)
    \/ \E self \in Inst, usage \in Usage : SetUsage(self, usage)

Spec == Init /\ [][Next]_vars


\* the calls that allocate, write and copy, on objects that stay alive
NextCore ==
    \/ \E self \in Inst, indexCount \in Counts : Create(self, indexCount)
    \/ \E self \in Inst, indices \in DataPtrs : Update(self, indices)
    \/ \E self \in Inst, indices \in DataPtrs, indexCount \in Counts, offset \in Offsets :
          UpdateRange(self, indices, indexCount, offset)
    \/ \E self \in Inst, indexBuffer \in Inst : UpdateBuffer(self, indexBuffer)
    \/ \E self \in Inst, usage \in Usage : SetUsage(self, usage)

SpecCore == Init /\ [][NextCore]_vars

(***************************************************************************)
(* Two threads inside update(indices, indexCount, offset) on one buffer     *)
(***************************************************************************)
\* the buffer the writer threads share, and its capacity
Shared == 1

SharedCount == MaxCount + 1

\* the regions [o1, o1 + c1) and [o2, o2 + c2) have no index in common
Disjoint(o1, c1, o2, c2) == c1 = 0 \/ c2 = 0 \/ o1 + c1 <= o2 \/ o2 + c2 <= o1

\* the transient context is free for thread t: no thread, or t itself, has it
ContextFree(t) == ctxOwner \in {0, t}

\* lines 153-160 of update: TRUE when the sanity checks let the call go on
updateChecks(w, self, indices, indexCount, offset) ==
    /\ w.m_buffer[self] # 0
    /\ indices # NULL
    /\ ~(offset # 0 /\ AddSize(offset, indexCount) > w.m_size[self])

\* lines 167-172 of update
updateResize(w, self, indexCount) ==
    IF indexCount >= w.m_size[self]
    THEN [glBufferData(w, "GL_ELEMENT_ARRAY_BUFFER", ToSigned(Bytes(indexCount)),
                       usageToGlEnum(w.m_usage[self]))
          EXCEPT !.m_size[self] = indexCount]
    ELSE w

\* line 174 with the offset left out
updateWrite_AtStart(w, indices, indexCount, offset) ==
    glBufferSubData(w, "GL_ELEMENT_ARRAY_BUFFER", 0,
                    ToSigned(Bytes(indexCount)), indices)

\* line 174 of update
updateWrite(w, indices, indexCount, offset) ==
    glBufferSubData(w, "GL_ELEMENT_ARRAY_BUFFER", ToSigned(Bytes(offset)),
                    ToSigned(Bytes(indexCount)), indices)

\* thread t has taken the step that leaves world r and is now at pc
Step(r, t, pc, ret) ==
    /\ m_buffer' = r.m_buffer
    /\ m_size' = r.m_size
    /\ store' = r.store
    /\ bound' = r.bound
    /\ ctxHeld' = r.ctxHeld
    /\ writer' = [writer EXCEPT ![t].pc = pc, ![t].ret = ret]
    /\ UNCHANGED <<calls, alive, m_usage, copy_buffer, openglES, crashed, last>>

\* lines 153-160
T_Check(t) ==
    /\ writer[t].pc = "call"
    /\ IF updateChecks(World, Shared, writer[t].indices, writer[t].indexCount,
                       writer[t].offset)
       THEN Step(World, t, "lock", FALSE)
       ELSE Step(World, t, "done", FALSE)
    /\ UNCHANGED ctxOwner

\* line 162: the thread waits for the context and takes it
T_Lock(t) ==
    /\ writer[t].pc = "lock"
    /\ ContextFree(t)
    /\ ctxOwner' = t
    /\ Step(Lock(World), t, "bind", FALSE)

\* line 164
T_Bind(t) ==
    /\ writer[t].pc = "bind"
    /\ Step(glBindBuffer(World, "GL_ELEMENT_ARRAY_BUFFER", m_buffer[Shared]),
            t, "resize", FALSE)
    /\ UNCHANGED ctxOwner

\* lines 167-172
T_Resize(t) ==
    /\ writer[t].pc = "resize"
    /\ Step(updateResize(World, Shared, writer[t].indexCount), t, "write", FALSE)
    /\ UNCHANGED ctxOwner

\* line 174
T_Write(t) ==
    /\ writer[t].pc = "write"
    /\ Step(updateWrite(World, writer[t].indices, writer[t].indexCount,
                        writer[t].offset), t, "unbind", FALSE)
    /\ UNCHANGED ctxOwner

\* line 176
T_Unbind(t) ==
    /\ writer[t].pc = "unbind"
    /\ Step(glBindBuffer(World, "GL_ELEMENT_ARRAY_BUFFER", 0), t, "return", FALSE)
    /\ UNCHANGED ctxOwner

\* lines 178-179: return true, and the scope of line 162 ends
T_Return(t) ==
    /\ writer[t].pc = "return"
    /\ ctxOwner' = 0
    /\ Step(Unlock(World), t, "done", TRUE)

\* the state after IndexBuffer a; a.create(SharedCount), as each of the two
\* threads calls a.update(its array, count, offset) for regions that are
\* disjoint, inside the capacity and shorter than it
InitThreads ==
    /\ calls = 0
    /\ alive = [i \in Slots |-> i \in Inst]
    /\ m_buffer = [NoInstance EXCEPT ![Shared] = 1]
    /\ m_size = [NoInstance EXCEPT ![Shared] = SharedCount]
    /\ m_usage = [i \in Slots |-> "Stream"]
    /\ store = [h \in Names |->
                  IF h = 1
                  THEN [state |-> "object", size |-> SizeofGLuint * SharedCount,
                        usage |-> usageToGlEnum("Stream"),
                        data |-> [k \in 1 .. SharedCount |-> Undef(1)]]
                  ELSE NoObject]
    /\ bound = 0
    /\ copy_buffer \in BOOLEAN
    /\ openglES \in BOOLEAN
    /\ openglES => ~copy_buffer
    /\ ctxHeld = 0
    /\ crashed = FALSE
    /\ last = [Call("create", Shared, 0, 0) EXCEPT !.ret = TRUE, !.acquired = 1,
                                                   !.glCalls = 4]
    /\ ctxOwner = 0
    /\ \E c1 \in 0 .. ArrayLen, o1 \in 0 .. SharedCount,
          c2 \in 0 .. ArrayLen, o2 \in 0 .. SharedCount :
          /\ o1 + c1 <= SharedCount /\ c1 < SharedCount
          /\ o2 + c2 <= SharedCount /\ c2 < SharedCount
          /\ Disjoint(o1, c1, o2, c2)
          /\ writer = [t \in Threads |->
                         [pc |-> "call", indices |-> t,
                          indexCount |-> IF t = 1 THEN c1 ELSE c2,
                          offset |-> IF t = 1 THEN o1 ELSE o2, ret |-> FALSE]]

NextThreads ==
    \/ \E t \in Threads : T_Check(t)
    \/ \E t \in Threads : T_Lock(t)
    \/ \E t \in Threads : T_Bind(t)
    \/ \E t \in Threads : T_Resize(t)
    \/ \E t \in Threads : T_Write(t)
    \/ \E t \in Threads : T_Unbind(t)
    \/ \E t \in Threads : T_Return(t)

SpecThreads == InitThreads /\ [][NextThreads]_vars

(***************************************************************************)
(* A thread in update(indices, indexCount, offset) while another thread is *)
(* in create(indexCount) or in update on the same buffer                   *)
(***************************************************************************)
\* line 111 of create
C_Available(t) ==
    /\ writer[t].pc = "c_call"
    /\ IF isAvailable THEN Step(World, t, "c_lock", FALSE)
                      ELSE Step(World, t, "done", FALSE)
    /\ UNCHANGED ctxOwner

\* line 114: the thread waits for the context and takes it
C_Lock(t) ==
    /\ writer[t].pc = "c_lock"
    /\ ContextFree(t)
    /\ ctxOwner' = t
    /\ Step(Lock(World), t, "c_gen", FALSE)

\* lines 116-117
C_Gen(t) ==
    /\ writer[t].pc = "c_gen"
    /\ \E name \in GenNames :
          Step(IF m_buffer[Shared] = 0 THEN glGenBuffers(World, Shared, name) ELSE World,
               t, "c_test", FALSE)
    /\ UNCHANGED ctxOwner

\* lines 119-123: with no handle create returns false, and the scope ends
C_Test(t) ==
    /\ writer[t].pc = "c_test"
    /\ IF m_buffer[Shared] = 0
       THEN ctxOwner' = 0 /\ Step(Unlock(World), t, "done", FALSE)
       ELSE UNCHANGED ctxOwner /\ Step(World, t, "c_bind", FALSE)

\* line 125
C_Bind(t) ==
    /\ writer[t].pc = "c_bind"
    /\ Step(glBindBuffer(World, "GL_ELEMENT_ARRAY_BUFFER", m_buffer[Shared]),
            t, "c_data", FALSE)
    /\ UNCHANGED ctxOwner

\* line 126
C_Data(t) ==
    /\ writer[t].pc = "c_data"
    /\ Step(glBufferData(World, "GL_ELEMENT_ARRAY_BUFFER",
                         ToSigned(Bytes(writer[t].indexCount)),
                         usageToGlEnum(m_usage[Shared])),
            t, "c_unbind", FALSE)
    /\ UNCHANGED ctxOwner

\* line 127
C_Unbind(t) ==
    /\ writer[t].pc = "c_unbind"
    /\ Step(glBindBuffer(World, "GL_ELEMENT_ARRAY_BUFFER", 0), t, "c_size", FALSE)
    /\ UNCHANGED ctxOwner

\* line 129
C_Size(t) ==
    /\ writer[t].pc = "c_size"
    /\ Step([World EXCEPT !.m_size[Shared] = writer[t].indexCount], t, "c_return", FALSE)
    /\ UNCHANGED ctxOwner

\* lines 131-132: return true, and the scope of line 114 ends
C_Return(t) ==
    /\ writer[t].pc = "c_return"
    /\ ctxOwner' = 0
    /\ Step(Unlock(World), t, "done", TRUE)

\* the state after IndexBuffer a; a.create(SharedCount), as thread 1 calls
\* a.update(indices, indexCount, offset) and thread 2 calls a.update(...) or
\* a.create(indexCount), with any offset and any count its array holds, so
\* that no byte size wraps. m_size is a plain std::size_t
\* read at lines 159 and 167 and written at lines 129 and 171: a read sees
\* the value before or after a write of the other thread, as the steps
\* interleave.
InitRace ==
    /\ calls = 0
    /\ alive = [i \in Slots |-> i \in Inst]
    /\ m_buffer = [NoInstance EXCEPT ![Shared] = 1]
    /\ m_size = [NoInstance EXCEPT ![Shared] = SharedCount]
    /\ m_usage = [i \in Slots |-> "Stream"]
    /\ store = [h \in Names |->
                  IF h = 1
                  THEN [state |-> "object", size |-> SizeofGLuint * SharedCount,
                        usage |-> usageToGlEnum("Stream"),
                        data |-> [k \in 1 .. SharedCount |-> Undef(1)]]
                  ELSE NoObject]
    /\ bound = 0
    /\ copy_buffer \in BOOLEAN
    /\ openglES \in BOOLEAN
    /\ openglES => ~copy_buffer
    /\ ctxHeld = 0
    /\ crashed = FALSE
    /\ last = [Call("create", Shared, 0, 0) EXCEPT !.ret = TRUE, !.acquired = 1,
                                                   !.glCalls = 4]
    /\ ctxOwner = 0
    /\ \E d1 \in {NULL, 1}, c1 \in 0 .. ArrayLen, o1 \in Offsets,
          d2 \in {NULL, 2}, c2 \in 0 .. ArrayLen, o2 \in Offsets, creates \in BOOLEAN :
          /\ creates => (d2 = NULL /\ o2 = 0)
          /\ writer = [t \in Threads |->
                         IF t = 1
                         THEN [pc |-> "call", indices |-> d1, indexCount |-> c1,
                               offset |-> o1, ret |-> FALSE]
                         ELSE [pc |-> IF creates THEN "c_call" ELSE "call",
                               indices |-> d2, indexCount |-> c2,
                               offset |-> o2, ret |-> FALSE]]

NextRace ==
    \/ \E t \in Threads : T_Check(t)
    \/ \E t \in Threads : T_Lock(t)
    \/ \E t \in Threads : T_Bind(t)
    \/ \E t \in Threads : T_Resize(t)
    \/ \E t \in Threads : T_Write(t)
    \/ \E t \in Threads : T_Unbind(t)
    \/ \E t \in Threads : T_Return(t)
    \/ \E t \in Threads : C_Available(t)
    \/ \E t \in Threads : C_Lock(t)
    \/ \E t \in Threads : C_Gen(t)
    \/ \E t \in Threads : C_Test(t)
    \/ \E t \in Threads : C_Bind(t)
    \/ \E t \in Threads : C_Data(t)
    \/ \E t \in Threads : C_Unbind(t)
    \/ \E t \in Threads : C_Size(t)
    \/ \E t \in Threads : C_Return(t)

SpecRace == InitRace /\ [][NextRace]_vars

(***************************************************************************)
(* Properties                                                              *)
(***************************************************************************)
\* the device usage hint the documentation gives for a Usage value
TagOf(usage) ==
    IF usage = "Stream" THEN "GL_STREAM_DRAW"
    ELSE IF usage = "Dynamic" THEN "GL_DYNAMIC_DRAW" ELSE "GL_STATIC_DRAW"

\* the first n indices of the caller's array d
Prefix(d, n) == [k \in 1 .. n |-> Elem(d, k)]

\* C2: on an allocated buffer, update(data, count, 0) with data an array of
\* count indices and count >= capacity returns success, leaves the handle,
\* sets the capacity to count, and leaves a data store of exactly count
\* indices, tagged with the usage the instance had at the call, that holds
\* data[0 .. count) and nothing of the prior contents.
C2_ReallocAtOffsetZero ==
    [][\A self \in Inst, indices \in DataPtrs \ {NULL}, indexCount \in 0 .. ArrayLen :
          (/\ m_buffer[self] # 0
           /\ indexCount >= m_size[self]
           /\ last'.op = "updateRange" /\ last'.self = self /\ last'.indices = indices
           /\ UpdateRange(self, indices, indexCount, 0))
          => /\ last'.ret = TRUE
             /\ m_buffer'[self] = m_buffer[self]
             /\ m_size'[self] = indexCount
             /\ store'[m_buffer[self]].state = "object"
             /\ store'[m_buffer[self]].size = SizeofGLuint * indexCount
             /\ store'[m_buffer[self]].usage = TagOf(m_usage[self])
             /\ store'[m_buffer[self]].data = Prefix(indices, indexCount)]_vars

\* C2 witness: two calls after construction, the second a ranged update that
\* returned success and left a store of MaxCount indices holding the array,
\* so the first was a create and the update had count = MaxCount >= capacity.
C2_Witness ==
    \E self \in Inst :
        /\ calls = 2
        /\ last.op = "updateRange" /\ last.self = self /\ last.ret = TRUE
        /\ m_buffer[self] # 0
        /\ m_size[self] = MaxCount
        /\ store[m_buffer[self]].data = Prefix(1, MaxCount)


\* the fields of every object, the device's buffers, the binding point and
\* the held context scopes are what they were
Untouched == UNCHANGED <<alive, m_buffer, m_size, m_usage, store, bound, ctxHeld>>

\* C1: each live instance has a non-empty handle exactly when the device
\* holds storage for that handle whose size in indices is the cached capacity.
C1_HandleIffStorage ==
    \A i \in Inst :
        (alive[i] /\ m_buffer[i] # 0)
        => /\ store[m_buffer[i]].state = "object"
           /\ StoreCount(store[m_buffer[i]]) = m_size[i]

\* C3: on an allocated buffer, update(data, count, offset) with offset # 0
\* and offset + count > capacity returns failure and changes nothing.
C3_OutOfRangeFails ==
    [][\A self \in Inst, indices \in DataPtrs, indexCount \in Counts,
          offset \in Offsets \ {0} :
          (/\ m_buffer[self] # 0
           /\ offset + indexCount > m_size[self]
           /\ last'.op = "updateRange" /\ last'.self = self /\ last'.indices = indices
           /\ UpdateRange(self, indices, indexCount, offset))
          => (last'.ret = FALSE /\ Untouched)]_vars

\* what a store's contents are after data[0 .. count) is written at offset
Written(old, d, count, offset) ==
    [k \in DOMAIN old |->
        IF k > offset /\ k <= offset + count THEN Elem(d, k - offset) ELSE old[k]]

\* C4: on an allocated buffer, update(data, count, offset) with non-null
\* data, offset # 0 and offset + count <= capacity returns success, puts data
\* at the indices [offset, offset + count), leaves every other index, and
\* leaves the handle, the capacity and the storage size.
C4_InPlaceRangeWrite ==
    [][\A self \in Inst, indices \in DataPtrs \ {NULL}, indexCount \in 0 .. ArrayLen,
          offset \in Offsets \ {0} :
          (/\ m_buffer[self] # 0
           /\ offset + indexCount <= m_size[self]
           /\ last'.op = "updateRange" /\ last'.self = self /\ last'.indices = indices
           /\ UpdateRange(self, indices, indexCount, offset))
          => /\ last'.ret = TRUE
             /\ m_buffer'[self] = m_buffer[self]
             /\ m_size'[self] = m_size[self]
             /\ store'[m_buffer[self]].size = store[m_buffer[self]].size
             /\ offset + indexCount <= Len(store'[m_buffer[self]].data)
             /\ store'[m_buffer[self]].data =
                   Written(store[m_buffer[self]].data, indices, indexCount, offset)]_vars

\* C5: on an allocated buffer, update(data, count, 0) with non-null data and
\* count < capacity returns success, puts data at the indices [0, count),
\* and leaves the capacity and the indices [count, capacity).
C5_InPlacePrefixWrite ==
    [][\A self \in Inst, indices \in DataPtrs \ {NULL}, indexCount \in 0 .. ArrayLen :
          (/\ m_buffer[self] # 0
           /\ indexCount < m_size[self]
           /\ last'.op = "updateRange" /\ last'.self = self /\ last'.indices = indices
           /\ UpdateRange(self, indices, indexCount, 0))
          => /\ last'.ret = TRUE
             /\ m_size'[self] = m_size[self]
             /\ indexCount <= Len(store'[m_buffer[self]].data)
             /\ store'[m_buffer[self]].data =
                   Written(store[m_buffer[self]].data, indices, indexCount, 0)]_vars

\* C6: update(data), update(data, count, offset) on an instance with an empty
\* handle or with null data, and update(otherBuffer) when this buffer or
\* otherBuffer has an empty handle, return failure, acquire no context scope,
\* make no device call and change no object, buffer or binding.
C6_PreconditionFailure ==
    [][(\/ /\ last'.op \in {"update", "updateRange"}
           /\ (m_buffer[last'.self] = 0 \/ last'.indices = NULL)
        \/ /\ last'.op = "updateBuffer"
           /\ (m_buffer[last'.self] = 0 \/ m_buffer[last'.other] = 0))
       => /\ last'.ret = FALSE
          /\ last'.acquired = 0
          /\ last'.glCalls = 0
          /\ Untouched]_vars

\* C6 witness: update(otherBuffer) was called on an allocated buffer with an
\* otherBuffer that has no handle, and returned failure.
C6_Witness ==
    /\ last.op = "updateBuffer"
    /\ last.ret = FALSE
    /\ alive[last.self] /\ m_buffer[last.self] # 0
    /\ alive[last.other] /\ m_buffer[last.other] = 0

\* a store freshly allocated for count indices under the name h
FreshStore(h, count, usage) ==
    [state |-> "object", size |-> SizeofGLuint * count, usage |-> TagOf(usage),
     data |-> [k \in 1 .. count |-> Undef(h)]]

\* C7: for every count, a create(count) that returns success leaves
\* getIndexCount() = count and a non-empty handle (the one it had, if any),
\* whose storage is fresh, sized for count indices and tagged with the usage.
C7_CreateAllocates ==
    [][\A self \in Inst, indexCount \in Counts :
          (/\ last'.op = "create" /\ last'.self = self /\ last'.ret = TRUE
           /\ Create(self, indexCount))
          => /\ getIndexCount(World, self)' = indexCount
             /\ m_buffer'[self] # 0
             /\ (m_buffer[self] # 0 => m_buffer'[self] = m_buffer[self])
             /\ store'[m_buffer'[self]] =
                   FreshStore(m_buffer'[self], indexCount, m_usage[self])]_vars

\* an instance as create(0) leaves it: a handle, and capacity 0
ZeroCreated(i) == alive[i] /\ m_buffer[i] # 0 /\ m_size[i] = 0

\* C8: after create(0) on an instance, and until it is created again with a
\* nonzero count, every update(data), update(data, count, offset) and
\* update(otherBuffer) on it returns failure.
C8_UpdateAfterCreateZeroFails ==
    [][(/\ last'.op \in {"update", "updateRange", "updateBuffer"}
        /\ ZeroCreated(last'.self))
       => last'.ret = FALSE]_vars

\* C8 as amended: after create(0) on an instance, and until its capacity
\* changes, update(data, count, offset) with offset + count in the range of
\* size_t returns failure when data is null or offset is nonzero and success
\* otherwise; update(data) returns success unless data is null; and
\* update(otherBuffer) with an allocated otherBuffer returns success on the
\* fast-copy path.
C8_UpdateAfterCreateZero ==
    [][\A self \in Inst :
          (ZeroCreated(self) /\ last'.self = self)
          => /\ \A indices \in DataPtrs, indexCount \in Counts, offset \in Offsets :
                   (/\ offset + indexCount < SizeMod
                    /\ last'.op = "updateRange" /\ last'.indices = indices
                    /\ UpdateRange(self, indices, indexCount, offset))
                   => (last'.ret = (indices # NULL /\ offset = 0))
             /\ last'.op = "update" => (last'.ret = (last'.indices # NULL))
             /\ (/\ last'.op = "updateBuffer"
                 /\ copy_buffer /\ ~openglES
                 /\ m_buffer[last'.other] # 0)
                => last'.ret = TRUE]_vars

\* C8 witness: a ranged update with non-null data has just failed on an
\* instance that has a handle and capacity 0, so its offset was not 0.
C8_Witness ==
    /\ last.op = "updateRange"
    /\ last.indices # NULL
    /\ last.ret = FALSE
    /\ ZeroCreated(last.self)

\* C9: for allocated buffers A and B, B empty, a B.update(A) that returns
\* success leaves B with A's capacity and A's contents, and A as it was.
C9_CopyRoundTrip ==
    [][\A self \in Inst, other \in Inst :
          (/\ self # other
           /\ m_buffer[self] # 0 /\ m_size[self] = 0
           /\ m_buffer[other] # 0
           /\ last'.op = "updateBuffer" /\ last'.self = self /\ last'.other = other
           /\ last'.ret = TRUE)
          => /\ getIndexCount(World, self)' = m_size[other]
             /\ store'[m_buffer[self]].data = store[m_buffer[other]].data
             /\ m_buffer'[other] = m_buffer[other]
             /\ m_size'[other] = m_size[other]
             /\ store'[m_buffer[other]] = store[m_buffer[other]]]_vars

\* the call is update(otherBuffer) on allocated buffers on the fast-copy path
FastCopyCall(self, other) ==
    /\ copy_buffer /\ ~openglES
    /\ m_buffer[self] # 0 /\ m_buffer[other] # 0
    /\ last'.op = "updateBuffer" /\ last'.self = self /\ last'.other = other

\* C10: on the fast-copy path update(otherBuffer) copies otherBuffer.capacity
\* indices into [0, otherBuffer.capacity) of this buffer's storage and leaves
\* this buffer's handle, capacity, storage size and remaining indices.
C10_FastCopyCopiesCapacity ==
    [][\A self \in Inst, other \in Inst :
          FastCopyCall(self, other)
          => LET h == m_buffer[self]
                 g == m_buffer[other]
             IN /\ m_buffer'[self] = h
                /\ m_size'[self] = m_size[self]
                /\ store'[h].size = store[h].size
                /\ \A k \in 1 .. m_size[other] :
                      /\ k \in DOMAIN store'[h].data
                      /\ k \in DOMAIN store[g].data
                      /\ store'[h].data[k] = store[g].data[k]
                /\ \A k \in DOMAIN store[h].data :
                      k > m_size[other] => store'[h].data[k] = store[h].data[k]]_vars

\* C11: when fast copy is unavailable and both buffers are allocated,
\* update(otherBuffer) returns, having reallocated this buffer's storage to
\* otherBuffer.capacity indices; it returns success exactly when both unmap
\* steps reported success, and then this buffer's contents are the
\* otherBuffer.capacity indices of otherBuffer.
C11_FallbackCopy ==
    [][\A self \in Inst, other \in Inst, srcOk \in BOOLEAN, dstOk \in BOOLEAN,
          ub \in UbOutcomes :
          (/\ ~crashed /\ alive[self] /\ alive[other]
           /\ ~copy_buffer /\ ~openglES
           /\ m_buffer[self] # 0 /\ m_buffer[other] # 0
           /\ last'.op \in {"updateBuffer", "crash"}
           /\ Commit(updateBuffer(World, self, other, srcOk, dstOk, ub),
                     Call("updateBuffer", self, other, 0)))
          => LET h == m_buffer[self]
                 g == m_buffer[other]
                 n == m_size[other]
             IN /\ ~crashed'
                /\ store'[h].size = SizeofGLuint * n
                /\ last'.ret = (srcOk /\ dstOk /\ h # g)
                /\ last'.ret => /\ Len(store[g].data) >= n
                                /\ store'[h].data = [k \in 1 .. n |-> store[g].data[k]]]_vars

\* C12: copy-construction from a source that has a handle gives the new
\* instance the source's usage and, when the copy succeeded, the source's
\* capacity and contents in storage of its own; when identifier generation or
\* the buffer-to-buffer update failed it leaves the new instance with an
\* empty handle and capacity 0.
C12_CopyConstruct ==
    [][\A self \in Inst, copy \in Inst :
          (/\ m_buffer[copy] # 0
           /\ last'.op \in {"copyConstruct", "crash"}
           /\ CopyConstruct(self, copy))
          => /\ ~crashed'
             /\ getUsage(World, self)' = m_usage[copy]
             /\ IF last'.ret
                THEN /\ m_buffer'[self] # 0
                     /\ m_size'[self] = m_size[copy]
                     /\ Len(store[m_buffer[copy]].data) = m_size[copy]
                     /\ store'[m_buffer'[self]].data = store[m_buffer[copy]].data
                ELSE /\ m_buffer'[self] = 0
                     /\ m_size'[self] = 0]_vars

\* no two live instances hold the same non-empty handle
NoAliasing ==
    \A i \in Slots, j \in Slots :
        (i # j /\ alive[i] /\ alive[j] /\ m_buffer[i] # 0) => m_buffer[i] # m_buffer[j]

\* C13: no two live instances ever hold the same non-empty handle, and a
\* create, update(data) or update(data, count, offset) on one instance, or an
\* update(otherBuffer) on it that returns success, leaves the handle, the
\* capacity and the device storage of every other instance as they were.
C13_NoAliasing ==
    /\ []NoAliasing
    /\ [][\A b \in Inst :
             (/\ last'.op \in {"create", "update", "updateRange"}
                 \/ (last'.op = "updateBuffer" /\ last'.ret)
              /\ last'.self # b
              /\ alive[b])
             => /\ m_buffer'[b] = m_buffer[b]
                /\ m_size'[b] = m_size[b]
                /\ m_buffer[b] # 0 => store'[m_buffer[b]] = store[m_buffer[b]]]_vars

\* C13 witness: after B = A each of the two instances has a handle of its
\* own, and B's storage holds as many indices as A's.
C13_Witness ==
    /\ last.op = "assign" /\ last.self # last.other
    /\ m_buffer[last.self] # 0 /\ m_buffer[last.other] # 0
    /\ m_buffer[last.self] # m_buffer[last.other]
    /\ m_size[last.self] = 1 /\ m_size[last.other] = 1
    /\ store[m_buffer[last.self]].size = store[m_buffer[last.other]].size

\* buffer names the device has generated and not deleted
InUse == {h \in Names : store[h].state # "unused"}

\* every handle a live instance holds is in use, no two live instances hold
\* the same one, and every name in use is held by a live instance
HandlesOwned ==
    /\ NoAliasing
    /\ \A i \in Slots : (alive[i] /\ m_buffer[i] # 0) => m_buffer[i] \in InUse
    /\ \A h \in InUse : \E i \in Slots : alive[i] /\ m_buffer[i] = h

\* C14: every handle is released exactly once, on destruction of its owning
\* instance or on re-creation with size 0: handles held by live instances
\* are in use and unshared, no name in use is without a live owner, and a
\* create(0) on an instance that holds a handle releases that handle.
C14_ReleasedOnDestroyOrCreateZero ==
    /\ []HandlesOwned
    /\ [][\A self \in Inst :
             (/\ m_buffer[self] # 0
              /\ last'.op = "create" /\ last'.self = self
              /\ Create(self, 0))
             => m_buffer[self] \notin InUse']_vars

\* C14 as amended: every handle is released exactly once, on destruction of
\* its owning instance: handles held by live instances are in use and
\* unshared, no name in use is without a live owner, names go out of use
\* only in a destructor (that of the instance, or of the temporary of an
\* assignment), and create, with size 0 too, keeps the handle it finds.
C14_ReleasedOnDestroy ==
    /\ []HandlesOwned
    /\ [][/\ (InUse \ InUse' # {}) => last'.op \in {"destroy", "assign", "crash"}
          /\ \A self \in Inst :
                (last'.op = "create" /\ last'.self = self /\ m_buffer[self] # 0)
                => /\ m_buffer'[self] = m_buffer[self]
                   /\ m_buffer[self] \in InUse']_vars

\* C14 witness: the last instance alive has just been destroyed, its
\* destructor deleted a buffer, and no buffer name is left in use.
C14_Witness ==
    /\ last.op = "destroy" /\ last.glCalls = 1
    /\ \A i \in Slots : ~alive[i]
    /\ InUse = {}
    /\ ~crashed

\* C15: swap(A, B) leaves A with B's former handle, capacity and usage and B
\* with A's, acquires no context scope, makes no device call, and leaves
\* every other instance, every buffer and the binding point as they were.
C15_SwapExchanges ==
    [][\A self \in Inst, right \in Inst :
          (last'.op = "swap" /\ last'.self = self /\ last'.other = right)
          => /\ getNativeHandle(World, self)' = m_buffer[right]
             /\ getNativeHandle(World, right)' = m_buffer[self]
             /\ getIndexCount(World, self)' = m_size[right]
             /\ getIndexCount(World, right)' = m_size[self]
             /\ getUsage(World, self)' = m_usage[right]
             /\ getUsage(World, right)' = m_usage[self]
             /\ \A i \in Slots \ {self, right} :
                   /\ m_buffer'[i] = m_buffer[i]
                   /\ m_size'[i] = m_size[i]
                   /\ m_usage'[i] = m_usage[i]
             /\ last'.acquired = 0
             /\ last'.glCalls = 0
             /\ UNCHANGED <<alive, store, bound, ctxHeld>>]_vars

\* C15 witness: a swap has just moved a one-index buffer and the usage
\* Static from one instance to the other, which had neither.
C15_Witness ==
    /\ last.op = "swap" /\ last.self # last.other
    /\ m_buffer[last.self] = 0 /\ m_usage[last.self] = "Stream"
    /\ m_buffer[last.other] # 0 /\ m_usage[last.other] = "Static"
    /\ m_size[last.other] = 1 /\ m_size[last.self] = 0

\* the step is an operation of `self` that asks the device for new storage
AllocatingCall(self) ==
    /\ last'.self = self
    /\ m_buffer'[self] # 0
    /\ \/ last'.op = "create" /\ last'.ret
       \/ /\ last'.op \in {"update", "updateRange"} /\ last'.ret
          /\ \E indices \in DataPtrs, indexCount \in Counts :
                /\ indexCount >= m_size[self]
                /\ \/ UpdateRange(self, indices, indexCount, 0)
                   \/ Update(self, indices)
       \/ /\ last'.op = "updateBuffer"
          /\ ~copy_buffer /\ ~openglES
          /\ m_buffer[self] # 0 /\ m_buffer[last'.other] # 0

\* C16: setUsage changes the instance's usage field and nothing else, and the
\* usage tag of a buffer's storage is set, to the usage field of the instance
\* that holds it, by each create, each update at offset 0 with count >=
\* capacity and each fallback buffer-to-buffer copy on that instance, and
\* changes at no other time.
C16_UsageAtAllocation ==
    [][/\ \A self \in Inst :
             last'.op = "setUsage" /\ last'.self = self
             => /\ \E usage \in Usage : m_usage' = [m_usage EXCEPT ![self] = usage]
                /\ UNCHANGED <<alive, m_buffer, m_size, store, bound, ctxHeld>>
       /\ \A self \in Inst :
             AllocatingCall(self)
             => store'[m_buffer'[self]].usage = TagOf(m_usage[self])
       /\ \A h \in Names :
             (/\ store[h].state = "object" /\ store'[h].state = "object"
              /\ ~\E self \in Inst : AllocatingCall(self) /\ m_buffer'[self] = h)
             => store'[h].usage = store[h].usage]_vars

\* C18: whenever no operation is in progress no context scope is held, and
\* every device call of the operation that ended last was made while it held
\* a scope it had acquired.
C18_ContextScope ==
    /\ ctxHeld = 0
    /\ last.unscoped = 0
    /\ last.glCalls > 0 => last.acquired > 0

\* C18 witness: a create that acquired the context and asked the device for
\* a name has just returned failure, with the scope released.
C18_Witness ==
    /\ last.op = "create" /\ last.ret = FALSE
    /\ last.acquired = 1 /\ last.glCalls = 1
    /\ ctxHeld = 0

\* C20: on an allocated buffer of capacity N, update(data) with data an
\* array of N indices returns success, leaves the handle and the capacity N,
\* and leaves storage of N indices whose contents are data[0 .. N).
C20_WholeBufferUpdate ==
    [][\A self \in Inst, indices \in DataPtrs \ {NULL} :
          (/\ m_buffer[self] # 0
           /\ m_size[self] <= ArrayLen
           /\ last'.op = "update" /\ last'.self = self /\ last'.indices = indices)
          => /\ last'.ret = TRUE
             /\ m_buffer'[self] = m_buffer[self]
             /\ getIndexCount(World, self)' = m_size[self]
             /\ store'[m_buffer[self]].size = SizeofGLuint * m_size[self]
             /\ store'[m_buffer[self]].data = Prefix(indices, m_size[self])]_vars

\* C20 witness: update(data) has just filled a buffer of MaxCount indices.
C20_Witness ==
    /\ last.op = "update" /\ last.ret = TRUE
    /\ m_buffer[last.self] # 0
    /\ m_size[last.self] = MaxCount
    /\ store[m_buffer[last.self]].data = Prefix(last.indices, MaxCount)

\* what the shared buffer holds once both writers' regions are written
BothWritten ==
    [k \in 1 .. SharedCount |->
        IF \E t \in Threads : k > writer[t].offset
                              /\ k <= writer[t].offset + writer[t].indexCount
        THEN LET t == CHOOSE u \in Threads : k > writer[u].offset
                                             /\ k <= writer[u].offset + writer[u].indexCount
             IN Elem(writer[t].indices, k - writer[t].offset)
        ELSE Undef(m_buffer[Shared])]

\* C17: two threads in update(data, count, offset) on one buffer, for disjoint
\* regions inside the capacity and without reallocation, never change the
\* handle or the capacity, and once both have returned both returned
\* success, region 1 holds data1, region 2 holds data2, every other index is
\* as it was, and no context scope is held.
C17_DisjointWriters ==
    /\ m_buffer[Shared] = 1
    /\ m_size[Shared] = SharedCount
    /\ store[1].size = SizeofGLuint * SharedCount
    /\ (\A t \in Threads : writer[t].pc = "done")
       => /\ \A t \in Threads : writer[t].ret = TRUE
          /\ store[1].data = BothWritten
          /\ ctxHeld = 0 /\ ctxOwner = 0 /\ bound = 0

\* C17 witness: both threads have returned, having written one index each,
\* thread 2 in front of thread 1.
C17_Witness ==
    /\ \A t \in Threads : writer[t].pc = "done" /\ writer[t].indexCount = 1
    /\ writer[2].offset = 0 /\ writer[1].offset = 1
    /\ store[1].data[1] = Elem(2, 1) /\ store[1].data[2] = Elem(1, 1)


\* C23: the range check of update(data, count, offset) is sound in size_t
\* arithmetic: for every offset # 0 and every count of the machine word, a
\* call that returns success has offset + count <= capacity as integers, and
\* leaves the capacity as it was.
C23_RangeCheckSound ==
    [][\A self \in Inst, indices \in DataPtrs, indexCount \in Counts,
          offset \in Offsets \ {0} :
          (/\ UpdateRange(self, indices, indexCount, offset)
           /\ last'.op = "updateRange" /\ last'.self = self /\ last'.indices = indices
           /\ last'.ret = TRUE)
          => (/\ offset + indexCount <= m_size[self]
              /\ m_size'[self] = m_size[self])]_vars

\* update(otherBuffer) reaches its map-and-copy path: not the restricted
\* profile, both buffers allocated, no fast device-side copy
FallbackCopyCall(self, other) ==
    /\ ~openglES /\ ~copy_buffer
    /\ m_buffer[self] # 0 /\ m_buffer[other] # 0

\* what every call but create does to the binding point: bind puts the given
\* buffer's handle (empty for no buffer); update(data, ...) that passes its
\* checks and update(otherBuffer) on the map-and-copy path clear it; swap,
\* setUsage, update calls that fail their checks and the fast device-side
\* copy leave it
BindingAfterCall ==
    /\ last'.op = "bind"
       => bound' = IF last'.other = NULL THEN 0 ELSE m_buffer[last'.other]
    /\ last'.op \in {"update", "updateRange"}
       => bound' = IF last'.ret THEN 0 ELSE bound
    /\ last'.op = "updateBuffer"
       => bound' = IF FallbackCopyCall(last'.self, last'.other) THEN 0 ELSE bound
    /\ last'.op \in {"swap", "setUsage"} => bound' = bound

\* C22: the binding point holds the handle of the most recent bind until the
\* next call that touches the device: every create, every update(data, count,
\* offset) that passes its checks and every map-and-copy update(otherBuffer)
\* returns with the binding point empty; swap, setUsage, failed checks and the
\* fast copy leave it.
C22_BindingClearedByEveryCreate ==
    [][BindingAfterCall /\ (last'.op = "create" => bound' = 0)]_vars

\* C22, amended: as above, but only a create that returns success clears the
\* binding point; a create whose handle generation fails leaves it.
C22_BindingClearedByCreate ==
    [][/\ BindingAfterCall
       /\ last'.op = "create" => bound' = IF last'.ret THEN 0 ELSE bound]_vars

\* a create failed at handle generation while a buffer was bound
C22_Witness ==
    /\ last.op = "create" /\ last.ret = FALSE
    /\ bound # 0 /\ \E i \in Inst : m_buffer[i] = bound

\* C21: when update(data, count, offset) runs while another thread is in
\* create or in update on the same buffer, the sanity checks of the call
\* still hold as its write is issued, and the write lies inside the data
\* store the buffer has at that moment.
C21_ChecksHoldAtWrite ==
    \A t \in Threads :
        writer[t].pc = "write"
        => /\ updateChecks(World, Shared, writer[t].indices, writer[t].indexCount,
                           writer[t].offset)
           /\ writer[t].offset + writer[t].indexCount
                 <= StoreCount(store[m_buffer[Shared]])

=============================================================================
